---- MODULE Spec2Model ----
(***************************************************************************)
(* Borehole planning engine of quanteng/boring: BoringPlanner.create_grid, *)
(* plan_boring and avoid_buildings (src/core/boring_planner.py) together   *)
(* with the MainWindow fields and the point-moved handler that operate on  *)
(* the planner's output (src/main.py).                                     *)
(*                                                                         *)
(* Geometry is fixed-point: every coordinate is an integer number of       *)
(* centimetres, polygons are axis-aligned rectangles whose exterior ring   *)
(* runs (x0,y0) -> (x1,y0) -> (x1,y1) -> (x0,y1), and cos/sin of the 16    *)
(* sweep angles are tabulated in thousandths.  Only the columns the        *)
(* planner reads or writes are kept on a row; the bookkeeping columns a    *)
(* spatial join adds to a frame are not.                                   *)
(***************************************************************************)
EXTENDS Integers, Sequences, FiniteSets, TLC

(***************************************************************************)
(* Units and bounds                                                        *)
(***************************************************************************)
\* centimetres per metre
M == 10 * 10

\* thousandths, the resolution of the cos/sin table
TrigScale == 10 * 10 * 10

\* the caller performs at most MaxOps operations on a planned collection
MaxOps == 2

\* DCFQ of a grid point the left join matched to no zone
NaN == "NaN"

Rect(x0, y0, x1, y1) == [x0 |-> x0 * M, y0 |-> y0 * M, x1 |-> x1 * M, y1 |-> y1 * M]

Zone(name, x0, y0, x1, y1) == [DCFQ |-> name, x0 |-> x0 * M, y0 |-> y0 * M, x1 |-> x1 * M, y1 |-> y1 * M]

(***************************************************************************)
(* Inputs the caller may load                                              *)
(***************************************************************************)
\* survey-zone datasets: one 100m x 100m zone at the origin; two zones with a gap between them
ZoneSets == { << Zone("A", 0, 0, 100, 100) >>, << Zone("A", 0, 0, 50, 100), Zone("B", 70, 0, 100, 100) >> }

\* key-area datasets; << >> stands for "no key-area file loaded" (zdqy_gdf is None)
KeyAreaSets == { << >>, << Rect(50, 50, 100, 100) >> }

\* building datasets, buildings pairwise disjoint
BuildingSets == { << Rect(30, 30, 50, 50) >>, << Rect(5, 5, 15, 15), Rect(30, 30, 70, 50) >> }

GridSizes == { 20 * M, 40 * M, 100 * M }

\* [boring_step, boring_step_zdqy, wboring_step, wboring_step_zdqy, offset_x, offset_y]
Params(bs, bsz, ws, wsz, ox, oy) == [boring_step |-> bs, boring_step_zdqy |-> bsz, wboring_step |-> ws, wboring_step_zdqy |-> wsz, offset_x |-> ox, offset_y |-> oy]

\* the defaults of plan_boring, a setting that makes every boring a well too, one with offsets
ParamSets == { Params(2, 1, 8, 4, 0, 0), Params(2, 1, 2, 1, 0, 0), Params(2, 1, 4, 2, 1, 1) }

Radii == { 20 * M, 50 * M }

\* random.seed(seed) values the caller may fix before a call
Seeds == { 0, 1, 2 }

\* where the user may drop a dragged point, besides back on its original position
MoveTargets == { << 40 * M, 50 * M >>, << 10 * M, 10 * M >> }

(***************************************************************************)
(* Geometry helpers                                                        *)
(***************************************************************************)
Abs(a) == IF a < 0 THEN -a ELSE a

\* a / b rounded to the nearest integer (b > 0), halves away from zero
RoundDiv(a, b) == IF a >= 0 THEN (2 * a + b) \div (2 * b) ELSE -((2 * (-a) + b) \div (2 * b))

\* ceil(a / b) for a >= 0, b > 0
CeilDiv(a, b) == (a + b - 1) \div b

Dist2(p, q) == (p[1] - q[1]) * (p[1] - q[1]) + (p[2] - q[2]) * (p[2] - q[2])

RECURSIVE SqrtSearch(_, _, _)
SqrtSearch(n, lo, hi) ==
    IF lo >= hi THEN lo
    ELSE LET mid == (lo + hi + 1) \div 2
         IN IF mid * mid <= n THEN SqrtSearch(n, mid, hi) ELSE SqrtSearch(n, lo, mid - 1)

\* floor(sqrt(n)) for 0 <= n < 2^30
ISqrt(n) == SqrtSearch(n, 0, 32767)

\* Point.distance, to the centimetre
Distance(p, q) == ISqrt(Dist2(p, q))

\* a containment test that also accepts a point on the polygon's edge
WithinClosed(p, r) == r.x0 <= p[1] /\ p[1] <= r.x1 /\ r.y0 <= p[2] /\ p[2] <= r.y1

\* the 'within' predicate of the spatial joins: interior only, an edge point is not within
Within(p, r) == r.x0 < p[1] /\ p[1] < r.x1 /\ r.y0 < p[2] /\ p[2] < r.y1

MinOf(S) == CHOOSE a \in S : \A b \in S : a <= b

MaxOf(S) == CHOOSE a \in S : \A b \in S : a >= b

RECURSIVE Flatten(_)
Flatten(ss) == IF ss = << >> THEN << >> ELSE Head(ss) \o Flatten(Tail(ss))

\* indices j of gdf (in order) whose polygon the point is within
Matches(p, gdf) == SelectSeq([j \in 1..Len(gdf) |-> j], LAMBDA j : Within(p, gdf[j]))

\* GeoDataFrame.total_bounds
total_bounds(gdf) ==
    [minx |-> MinOf({gdf[j].x0 : j \in 1..Len(gdf)}), miny |-> MinOf({gdf[j].y0 : j \in 1..Len(gdf)}),
     maxx |-> MaxOf({gdf[j].x1 : j \in 1..Len(gdf)}), maxy |-> MaxOf({gdf[j].y1 : j \in 1..Len(gdf)})]

\* np.arange(start, stop, step): start, start+step, ... strictly below stop
arange(start, stop, step) == [i \in 1..CeilDiv(stop - start, step) |-> start + (i - 1) * step]

(***************************************************************************)
(* BoringPlanner.create_grid                                               *)
(***************************************************************************)
\* the lattice of candidate points, x outer and y inner
LatticePoints(boundary_gdf, grid_size) ==
    LET b == total_bounds(boundary_gdf)
        x_coords == arange(b.minx, b.maxx, grid_size)
        y_coords == arange(b.miny, b.maxy, grid_size)
    IN Flatten([i \in 1..Len(x_coords) |-> [j \in 1..Len(y_coords) |-> << x_coords[i], y_coords[j] >>]])

\* the join taken with how='left': a point matching no region keeps a row
GridJoinLeft(points, boundary_gdf) ==
    Flatten([k \in 1..Len(points) |->
        LET m == Matches(points[k], boundary_gdf)
        IN IF m = << >>
           THEN << [geometry |-> points[k], index_right |-> 0] >>
           ELSE [n \in 1..Len(m) |-> [geometry |-> points[k], index_right |-> m[n]]]])

\* sjoin(grid, boundary, how='inner', op='within'): one row per (point, region) match
GridJoin(points, boundary_gdf) ==
    Flatten([k \in 1..Len(points) |->
        LET m == Matches(points[k], boundary_gdf)
        IN [n \in 1..Len(m) |-> [geometry |-> points[k], index_right |-> m[n]]]])

create_grid(boundary_gdf, grid_size) ==
    LET b == total_bounds(boundary_gdf)
        joined == GridJoin(LatticePoints(boundary_gdf, grid_size), boundary_gdf)
    IN [k \in 1..Len(joined) |->
          [geometry |-> joined[k].geometry,
           row |-> (joined[k].geometry[2] - b.miny) \div grid_size,
           col |-> (joined[k].geometry[1] - b.minx) \div grid_size,
           id |-> k]]

\* the exception create_grid ends with, "none" when it returns: total_bounds of a frame without
\* rows is NaN and np.arange(NaN, NaN, step) cannot compute a length; np.arange with step 0 has
\* no finite length; a negative step gives no coordinate and the join of no point has no row
CreateGridRaises(boundary_gdf, grid_size) == IF boundary_gdf = << >> \/ grid_size = 0 THEN "ValueError" ELSE "none"

(***************************************************************************)
(* BoringPlanner.plan_boring                                               *)
(***************************************************************************)
\* Python's %: the result takes the sign of the divisor
PyMod(a, b) == IF b > 0 THEN a % b ELSE -((-a) % (-b))

\* f'{i:04d}': the decimal digits of i, zero-padded to at least four
RECURSIVE Digits(_)
Digits(i) == IF i < 10 THEN << i >> ELSE Append(Digits(i \div 10), i % 10)

Format04d(i) == LET d == Digits(i) IN [k \in 1..(4 - Len(d)) |-> 0] \o d

\* the number a digit string denotes
RECURSIVE DigitsValue(_)
DigitsValue(d) == IF d = << >> THEN 0 ELSE 10 * DigitsValue(SubSeq(d, 1, Len(d) - 1)) + d[Len(d)]

\* Series.unique(): the distinct values in order of first appearance
RECURSIVE Unique(_)
Unique(s) ==
    IF s = << >> THEN << >>
    ELSE LET u == Unique(SubSeq(s, 1, Len(s) - 1))
         IN IF \E k \in 1..Len(u) : u[k] = s[Len(s)] THEN u ELSE Append(u, s[Len(s)])

\* the two axis tests joined by 'or' instead of 'and'
GridConditionOr(row, offset_x, offset_y, step, step_zdqy) ==
    IF row.is_key_area
    THEN PyMod(row.col - offset_x, step_zdqy) = 0 \/ PyMod(row.row - offset_y, step_zdqy) = 0
    ELSE PyMod(row.col - offset_x, step) = 0 \/ PyMod(row.row - offset_y, step) = 0

\* one row of _check_grid_condition
GridCondition(row, offset_x, offset_y, step, step_zdqy) ==
    IF row.is_key_area
    THEN PyMod(row.col - offset_x, step_zdqy) = 0 /\ PyMod(row.row - offset_y, step_zdqy) = 0
    ELSE PyMod(row.col - offset_x, step) = 0 /\ PyMod(row.row - offset_y, step) = 0

_check_grid_condition(gdf, offset_x, offset_y, step, step_zdqy) ==
    [k \in 1..Len(gdf) |-> GridCondition(gdf[k], offset_x, offset_y, step, step_zdqy)]

\* boring_gdf['is_key_area']: sjoin(how='left', op='within') against the key areas, or False
MarkKeyArea(grid, zdqy, has_zdqy) ==
    [k \in 1..Len(grid) |->
        [geometry |-> grid[k].geometry, row |-> grid[k].row, col |-> grid[k].col, id |-> grid[k].id,
         is_key_area |-> (has_zdqy /\ Matches(grid[k].geometry, zdqy) # << >>)]]

\* sjoin(boring_gdf, dcfq_gdf[['DCFQ','geometry']], how='left', op='within')
ZoneJoin(gdf, dcfq) ==
    Flatten([k \in 1..Len(gdf) |->
        LET m == Matches(gdf[k].geometry, dcfq)
            r == gdf[k]
        IN IF m = << >>
           THEN << [geometry |-> r.geometry, row |-> r.row, col |-> r.col, id |-> r.id,
                    is_key_area |-> r.is_key_area, DCFQ |-> NaN] >>
           ELSE [n \in 1..Len(m) |->
                   [geometry |-> r.geometry, row |-> r.row, col |-> r.col, id |-> r.id,
                    is_key_area |-> r.is_key_area, DCFQ |-> dcfq[m[n]].DCFQ]]])

\* the codes numbered from range(len(rows)), that is from 0
CodedRowsFromZero(rows, type, prefix) ==
    [i \in 1..Len(rows) |->
        [geometry |-> rows[i].geometry, row |-> rows[i].row, col |-> rows[i].col, id |-> rows[i].id,
         is_key_area |-> rows[i].is_key_area, DCFQ |-> rows[i].DCFQ,
         type |-> type, code |-> [prefix |-> prefix, digits |-> Format04d(i - 1)],
         moved |-> FALSE, original_geom |-> rows[i].geometry]]

\* the rows of one zone and one type, with their codes
CodedRows(rows, type, prefix) ==
    [i \in 1..Len(rows) |->
        [geometry |-> rows[i].geometry, row |-> rows[i].row, col |-> rows[i].col, id |-> rows[i].id,
         is_key_area |-> rows[i].is_key_area, DCFQ |-> rows[i].DCFQ,
         type |-> type, code |-> [prefix |-> prefix, digits |-> Format04d(i)],
         moved |-> FALSE, original_geom |-> rows[i].geometry]]

\* an iteration of the zone loop that plans a well only where no boring is planned
ZoneRowsExclusive(joined, is_boring, is_wboring, zone) ==
    LET idx == [k \in 1..Len(joined) |-> k]
        zone_boring == SelectSeq(idx, LAMBDA k : zone # NaN /\ joined[k].DCFQ = zone /\ is_boring[k])
        zone_wboring == SelectSeq(idx, LAMBDA k : zone # NaN /\ joined[k].DCFQ = zone /\ is_wboring[k] /\ ~is_boring[k])
    IN CodedRows([i \in 1..Len(zone_boring) |-> joined[zone_boring[i]]], "BORING", "S")
       \o CodedRows([i \in 1..Len(zone_wboring) |-> joined[zone_wboring[i]]], "WBORING", "W")

\* an iteration of the zone loop that also takes the rows matched to no zone
ZoneRowsUnmatchedKept(joined, is_boring, is_wboring, zone) ==
    LET idx == [k \in 1..Len(joined) |-> k]
        zone_boring == SelectSeq(idx, LAMBDA k : joined[k].DCFQ = zone /\ is_boring[k])
        zone_wboring == SelectSeq(idx, LAMBDA k : joined[k].DCFQ = zone /\ is_wboring[k])
    IN CodedRows([i \in 1..Len(zone_boring) |-> joined[zone_boring[i]]], "BORING", "S")
       \o CodedRows([i \in 1..Len(zone_wboring) |-> joined[zone_wboring[i]]], "WBORING", "W")

\* zone_boring and zone_wboring of one iteration of the zone loop
ZoneRows(joined, is_boring, is_wboring, zone) ==
    LET idx == [k \in 1..Len(joined) |-> k]
        zone_boring == SelectSeq(idx, LAMBDA k : zone # NaN /\ joined[k].DCFQ = zone /\ is_boring[k])
        zone_wboring == SelectSeq(idx, LAMBDA k : zone # NaN /\ joined[k].DCFQ = zone /\ is_wboring[k])
    IN CodedRows([i \in 1..Len(zone_boring) |-> joined[zone_boring[i]]], "BORING", "S")
       \o CodedRows([i \in 1..Len(zone_wboring) |-> joined[zone_wboring[i]]], "WBORING", "W")

\* the frame plan_boring returns; the zone loop must run at least once (PlanRaises)
plan_boring(grid, dcfq, zdqy, has_zdqy, params) ==
    LET joined == ZoneJoin(MarkKeyArea(grid, zdqy, has_zdqy), dcfq)
        is_boring == _check_grid_condition(joined, params.offset_x, params.offset_y, params.boring_step, params.boring_step_zdqy)
        is_wboring == _check_grid_condition(joined, params.offset_x, params.offset_y, params.wboring_step, params.wboring_step_zdqy)
        zones == Unique([k \in 1..Len(joined) |-> joined[k].DCFQ])
    IN Flatten([z \in 1..Len(zones) |-> ZoneRows(joined, is_boring, is_wboring, zones[z])])

\* result_gdf is bound inside the zone loop only: with no zone value the return raises
PlanRaises(grid) == IF grid = << >> THEN "UnboundLocalError" ELSE "none"

\* some row takes (col - offset_x) % 0: the step of its area class is zero
ZeroStepUsed(gdf, step, step_zdqy) == \E k \in 1..Len(gdf) : (IF gdf[k].is_key_area THEN step_zdqy ELSE step) = 0

\* the exception plan_boring ends with, "none" when it returns: dcfq_gdf[['DCFQ', 'geometry']]
\* of None; a modulo by a zero step in _check_grid_condition; the unbound result_gdf
PlanBoringRaises(grid, dcfq, dcfq_is_none, zdqy, has_zdqy, params) ==
    IF dcfq_is_none THEN "TypeError"
    ELSE LET joined == ZoneJoin(MarkKeyArea(grid, zdqy, has_zdqy), dcfq)
         IN IF \/ ZeroStepUsed(joined, params.boring_step, params.boring_step_zdqy)
               \/ ZeroStepUsed(joined, params.wboring_step, params.wboring_step_zdqy)
            THEN "ZeroDivisionError"
            ELSE PlanRaises(grid)

(***************************************************************************)
(* BoringPlanner.avoid_buildings                                           *)
(***************************************************************************)
\* cos of the angles 2*pi*k/16, k = 0..15, in thousandths
CosTable == << 1000, 924, 707, 383, 0, -383, -707, -924, -1000, -924, -707, -383, 0, 383, 707, 924 >>

Cos(k) == CosTable[(k % 16) + 1]

\* sin(a) = cos(a - pi/2)
Sin(k) == CosTable[((k + 12) % 16) + 1]

\* the point at distance dist and sweep angle k from p
Offset(p, dist, k) == << p[1] + RoundDiv(dist * Cos(k), TrigScale), p[2] + RoundDiv(dist * Sin(k), TrigScale) >>

\* the random module: a generator state, advanced once per random.uniform call
RngNext(s) == (37 * s + 11) % 64

\* random.uniform(0, 2*pi), as one of the 16 sweep angles
UniformAngle(s) == s % 16

\* random.uniform(0, radius), as a quarter fraction of the radius
UniformDistance(s, radius) == (radius * (s \div 16)) \div 4

\* building.boundary.interpolate(building.boundary.project(p)) for p inside the rectangle:
\* the foot of p on the nearest edge, the first such edge along the ring on a tie
nearest_on_boundary(building, p) ==
    LET feet == << << p[1], building.y0 >>, << building.x1, p[2] >>, << p[1], building.y1 >>, << building.x0, p[2] >> >>
        best == MinOf({Dist2(p, feet[e]) : e \in 1..4})
        first == CHOOSE e \in 1..4 : Dist2(p, feet[e]) = best /\ \A f \in 1..(e - 1) : Dist2(p, feet[f]) # best
    IN feet[first]

_move_randomly(original_point, boundary_point, radius, rng) ==
    LET s1 == RngNext(rng)
        s2 == RngNext(s1)
        angle == UniformAngle(s1)
        distance == UniformDistance(s2, radius)
    IN [point |-> Offset(boundary_point, distance, angle), rng |-> s2]

\* kdtree.query_ball_point(boundary_point, r=radius): positions in valid_points, in order; the
\* compiled tree compares squared distances with r * r
QueryBall(valid_points, boundary_point, radius) ==
    SelectSeq([i \in 1..Len(valid_points) |-> i], LAMBDA i : Dist2(valid_points[i], boundary_point) <= radius * radius)

\* the 16 candidates placed at the full radius from the boundary point
SamplePointsAtRadius(boundary_point, radius) == [k \in 1..16 |-> Offset(boundary_point, radius, k - 1)]

\* the 16 candidates, at radius * 0.5 from the boundary point
SamplePoints(boundary_point, radius) == [k \in 1..16 |-> Offset(boundary_point, radius \div 2, k - 1)]

\* distances[0] instead of min(distances): the first known point found, not the nearest
FirstDist(p, valid_points, indices) == Distance(p, valid_points[indices[1]])

\* min(distances) over the known points found by the query
MinDist(p, valid_points, indices) == ISqrt(MinOf({Dist2(p, valid_points[indices[n]]) : n \in 1..Len(indices)}))

\* uncertainty = 1.0 - min_dist / radius, scaled by |radius| (radius # 0)
Uncertainty(min_dist, radius) == IF radius > 0 THEN radius - min_dist ELSE min_dist - radius

\* np.argmax: the first position holding the maximum
ArgMax(values) == CHOOSE k \in 1..Len(values) : (\A j \in 1..Len(values) : values[j] <= values[k]) /\ (\A j \in 1..(k - 1) : values[j] < values[k])

_move_by_uncertainty(original_point, boundary_point, valid_points, radius, rng) ==
    LET indices == QueryBall(valid_points, boundary_point, radius)
        sample_points == SamplePoints(boundary_point, radius)
        uncertainties == [k \in 1..16 |-> Uncertainty(MinDist(sample_points[k], valid_points, indices), radius)]
    IN IF indices = << >>
       THEN _move_randomly(original_point, boundary_point, radius, rng)
       ELSE [point |-> sample_points[ArgMax(uncertainties)], rng |-> rng]

\* points_to_move: the positions whose geometry is within some building
PointsToMove(points_gdf, buildings_gdf) ==
    SelectSeq([i \in 1..Len(points_gdf) |-> i], LAMBDA i : Matches(points_gdf[i].geometry, buildings_gdf) # << >>)

\* valid_points: the geometries of the rows that are not to be moved, in order
ValidPoints(points_gdf, buildings_gdf) ==
    LET keep == SelectSeq([i \in 1..Len(points_gdf) |-> i], LAMBDA i : Matches(points_gdf[i].geometry, buildings_gdf) = << >>)
    IN [n \in 1..Len(keep) |-> points_gdf[keep[n]].geometry]

\* a relocation that takes the sweep whenever known points exist, whatever the mode
NewPointSweepFirst(row, buildings_gdf, valid_points, search_radius, algorithm, rng) ==
    LET original_point == row.geometry
        building == buildings_gdf[Head(Matches(original_point, buildings_gdf))]
        boundary_point == nearest_on_boundary(building, original_point)
    IN IF valid_points # << >>
       THEN _move_by_uncertainty(original_point, boundary_point, valid_points, search_radius, rng)
       ELSE _move_randomly(original_point, boundary_point, search_radius, rng)

\* one iteration of the relocation loop: the new point and the generator state after it
NewPoint(row, buildings_gdf, valid_points, search_radius, algorithm, rng) ==
    LET original_point == row.geometry
        building == buildings_gdf[Head(Matches(original_point, buildings_gdf))]
        boundary_point == nearest_on_boundary(building, original_point)
    IN IF algorithm = "uncertainty" /\ valid_points # << >>
       THEN _move_by_uncertainty(original_point, boundary_point, valid_points, search_radius, rng)
       ELSE _move_randomly(original_point, boundary_point, search_radius, rng)

\* a relocation that also rewrites original_geom
RelocateWithOrigin(points_gdf, idx, new_point) == [points_gdf EXCEPT ![idx].geometry = new_point, ![idx].moved = TRUE, ![idx].original_geom = new_point]

\* points_gdf.at[idx, 'geometry'] = new_point; points_gdf.at[idx, 'moved'] = True
Relocate(points_gdf, idx, new_point) == [points_gdf EXCEPT ![idx].geometry = new_point, ![idx].moved = TRUE]

\* a loop that rebuilds the known points from the frame as relocated so far
RECURSIVE AvoidLoopLive(_, _, _, _, _, _, _)
AvoidLoopLive(points_gdf, to_move, buildings_gdf, valid_points, search_radius, algorithm, rng) ==
    IF to_move = << >> THEN points_gdf
    ELSE LET idx == Head(to_move)
             live == ValidPoints(points_gdf, buildings_gdf)
             new == NewPoint(points_gdf[idx], buildings_gdf, live, search_radius, algorithm, rng)
         IN AvoidLoopLive(Relocate(points_gdf, idx, new.point), Tail(to_move), buildings_gdf, live, search_radius, algorithm, new.rng)

RECURSIVE AvoidLoop(_, _, _, _, _, _, _)
AvoidLoop(points_gdf, to_move, buildings_gdf, valid_points, search_radius, algorithm, rng) ==
    IF to_move = << >> THEN points_gdf
    ELSE LET idx == Head(to_move)
             new == NewPoint(points_gdf[idx], buildings_gdf, valid_points, search_radius, algorithm, rng)
         IN AvoidLoop(Relocate(points_gdf, idx, new.point), Tail(to_move), buildings_gdf, valid_points, search_radius, algorithm, new.rng)

\* a version that returns points_to_move, the relocated rows only
avoid_buildings_moved_only(points_gdf, buildings_gdf, search_radius, algorithm, seed) ==
    LET points_to_move == PointsToMove(points_gdf, buildings_gdf)
        out == AvoidLoop(points_gdf, points_to_move, buildings_gdf, ValidPoints(points_gdf, buildings_gdf), search_radius, algorithm, seed)
    IN IF points_to_move = << >>
       THEN points_gdf
       ELSE [n \in 1..Len(points_to_move) |-> out[points_to_move[n]]]

avoid_buildings(points_gdf, buildings_gdf, search_radius, algorithm, seed) ==
    LET points_to_move == PointsToMove(points_gdf, buildings_gdf)
    IN IF points_to_move = << >>
       THEN points_gdf
       ELSE AvoidLoop(points_gdf, points_to_move, buildings_gdf, ValidPoints(points_gdf, buildings_gdf), search_radius, algorithm, seed)

\* the relocation of row idx divides by a zero radius: the ball query finds a known point (at
\* the boundary point itself) and uncertainty = 1.0 - (min_dist / radius) is evaluated
DividesByZero(points_gdf, idx, buildings_gdf, valid_points, search_radius, algorithm) ==
    /\ algorithm = "uncertainty"
    /\ valid_points # << >>
    /\ search_radius = 0
    /\ LET p == points_gdf[idx].geometry
           building == buildings_gdf[Head(Matches(p, buildings_gdf))]
       IN QueryBall(valid_points, nearest_on_boundary(building, p), search_radius) # << >>

\* the rows of points_to_move the loop relocates before it ends: all of them, or those ahead of
\* the first row whose relocation raises
MovesDone(points_gdf, buildings_gdf, search_radius, algorithm) ==
    LET to_move == PointsToMove(points_gdf, buildings_gdf)
        valid_points == ValidPoints(points_gdf, buildings_gdf)
        bad == {n \in 1..Len(to_move) : DividesByZero(points_gdf, to_move[n], buildings_gdf, valid_points, search_radius, algorithm)}
    IN IF bad = {} THEN to_move ELSE SubSeq(to_move, 1, MinOf(bad) - 1)

\* the exception avoid_buildings ends with, "none" when it returns
AvoidRaises(points_gdf, buildings_gdf, search_radius, algorithm) ==
    IF MovesDone(points_gdf, buildings_gdf, search_radius, algorithm) = PointsToMove(points_gdf, buildings_gdf)
    THEN "none" ELSE "ZeroDivisionError"

\* points_gdf as the call leaves it: the rows are rewritten in place, so the relocations done
\* before an exception stay in the caller's frame
avoid_buildings_in_place(points_gdf, buildings_gdf, search_radius, algorithm, seed) ==
    AvoidLoop(points_gdf, MovesDone(points_gdf, buildings_gdf, search_radius, algorithm), buildings_gdf,
              ValidPoints(points_gdf, buildings_gdf), search_radius, algorithm, seed)

(***************************************************************************)
(* MainWindow.on_point_moved                                               *)
(***************************************************************************)
\* boring_gdf.index[boring_gdf['id'] == point_id]
IndexOfId(gdf, point_id) == SelectSeq([i \in 1..Len(gdf) |-> i], LAMBDA i : gdf[i].id = point_id)

on_point_moved(gdf, point_id, new_point) ==
    LET idx == IndexOfId(gdf, point_id)
    IN IF Len(idx) > 0 THEN [gdf EXCEPT ![idx[1]].geometry = new_point, ![idx[1]].moved = TRUE] ELSE gdf

(***************************************************************************)
(* State: the MainWindow fields the planner's results are kept in, the     *)
(* planner's mode flag, a record of the last call and of the frame         *)
(* plan_boring returned, and the extent and result of the meridian lookup  *)
(***************************************************************************)
VARIABLES attrs, dcfq_gdf, zdqy_gdf, building_gdf, grid_gdf, boring_gdf, avoid_algorithm, plan_params, last_op, last_args, pre_gdf, raised, ops, planned_gdf, gdf_bounds, central_meridian

vars == << attrs, dcfq_gdf, zdqy_gdf, building_gdf, grid_gdf, boring_gdf, avoid_algorithm, plan_params, last_op, last_args, pre_gdf, raised, ops, planned_gdf, gdf_bounds, central_meridian >>

\* hasattr(self, name)
hasattr(name) == name \in attrs

Init ==
    /\ dcfq_gdf \in ZoneSets
    /\ zdqy_gdf \in KeyAreaSets
    /\ building_gdf \in BuildingSets
    /\ attrs = {"dcfq_gdf", "building_gdf"} \cup (IF zdqy_gdf = << >> THEN {} ELSE {"zdqy_gdf"})
    /\ grid_gdf = << >>
    /\ boring_gdf = << >>
    /\ avoid_algorithm = "uncertainty"
    /\ plan_params = Params(2, 1, 8, 4, 0, 0)
    /\ last_op = "init"
    /\ last_args = << >>
    /\ pre_gdf = << >>
    /\ raised = "none"
    /\ ops = 0
    /\ planned_gdf = << >>
    /\ gdf_bounds = << >>
    /\ central_meridian = 0

\* the caller selects the relocation strategy (BoringPlanner.avoid_algorithm) before its first request
SetAvoidAlgorithm(mode) ==
    /\ last_op = "init"
    /\ avoid_algorithm # mode
    /\ avoid_algorithm' = mode
    /\ UNCHANGED << attrs, dcfq_gdf, zdqy_gdf, building_gdf, grid_gdf, boring_gdf, plan_params, last_op, last_args, pre_gdf, raised, ops, planned_gdf, gdf_bounds, central_meridian >>

\* a caller stores planner.create_grid(dcfq_gdf, grid_size) in its grid_gdf field, as
\* MainWindow.generate_grid means to; one grid per session
CreateGrid(grid_size) ==
    /\ hasattr("dcfq_gdf")
    /\ ~hasattr("grid_gdf")
    /\ grid_gdf' = create_grid(dcfq_gdf, grid_size)
    /\ attrs' = attrs \cup {"grid_gdf"}
    /\ last_op' = "create_grid"
    /\ last_args' = << grid_size >>
    /\ raised' = "none"
    /\ UNCHANGED << dcfq_gdf, zdqy_gdf, building_gdf, boring_gdf, avoid_algorithm, plan_params, pre_gdf, ops, planned_gdf, gdf_bounds, central_meridian >>

\* self.boring_gdf = self.planner.plan_boring(self.grid_gdf, self.dcfq_gdf, zdqy_gdf, params); one plan per session
PlanBoring(params) ==
    /\ hasattr("grid_gdf")
    /\ ~hasattr("boring_gdf")
    /\ last_op # "plan_boring"
    /\ raised' = PlanRaises(grid_gdf)
    /\ IF raised' = "none"
       THEN /\ boring_gdf' = plan_boring(grid_gdf, dcfq_gdf, zdqy_gdf, hasattr("zdqy_gdf"), params)
            /\ attrs' = attrs \cup {"boring_gdf"}
            /\ plan_params' = params
            /\ planned_gdf' = boring_gdf'
       ELSE UNCHANGED << boring_gdf, attrs, plan_params, planned_gdf >>
    /\ last_op' = "plan_boring"
    /\ last_args' = << params >>
    /\ UNCHANGED << dcfq_gdf, zdqy_gdf, building_gdf, grid_gdf, avoid_algorithm, pre_gdf, ops, gdf_bounds, central_meridian >>

\* random.seed(seed); self.boring_gdf = self.planner.avoid_buildings(self.boring_gdf, self.building_gdf, radius)
AvoidBuildings(search_radius, seed) ==
    /\ hasattr("building_gdf")
    /\ hasattr("boring_gdf")
    /\ ops < MaxOps
    /\ pre_gdf' = boring_gdf
    /\ boring_gdf' = avoid_buildings(boring_gdf, building_gdf, search_radius, avoid_algorithm, seed)
    /\ last_op' = "avoid_buildings"
    /\ last_args' = << search_radius, seed >>
    /\ raised' = "none"
    /\ ops' = ops + 1
    /\ UNCHANGED << attrs, dcfq_gdf, zdqy_gdf, building_gdf, grid_gdf, avoid_algorithm, plan_params, planned_gdf, gdf_bounds, central_meridian >>

\* the ids a point-moved signal may carry: those on the map, and one that is on no row
PointIds == {boring_gdf[i].id : i \in 1..Len(boring_gdf)} \cup {0}

\* the drop positions for a drag of point_id
DropTargets(point_id) == MoveTargets \cup {boring_gdf[i].original_geom : i \in {j \in 1..Len(boring_gdf) : boring_gdf[j].id = point_id}}

\* map_viewer.point_moved_signal -> MainWindow.on_point_moved(point_id, new_x, new_y)
OnPointMoved(point_id, new_point) ==
    /\ hasattr("boring_gdf")
    /\ ops < MaxOps
    /\ pre_gdf' = boring_gdf
    /\ boring_gdf' = on_point_moved(boring_gdf, point_id, new_point)
    /\ last_op' = "on_point_moved"
    /\ last_args' = << point_id, new_point >>
    /\ raised' = "none"
    /\ ops' = ops + 1
    /\ UNCHANGED << attrs, dcfq_gdf, zdqy_gdf, building_gdf, grid_gdf, avoid_algorithm, plan_params, planned_gdf, gdf_bounds, central_meridian >>

(***************************************************************************)
(* Properties                                                              *)
(***************************************************************************)
AfterAvoid == last_op = "avoid_buildings"

AfterPlan == last_op = "plan_boring" /\ raised = "none"

Rows == 1..Len(boring_gdf)

\* p is strictly inside rectangle r
StrictlyInside(p, r) == p[1] > r.x0 /\ p[1] < r.x1 /\ p[2] > r.y0 /\ p[2] < r.y1

InSomeBuilding(p) == \E b \in 1..Len(building_gdf) : StrictlyInside(p, building_gdf[b])

\* the rows of pre_gdf that were inside a building when the last avoid_buildings call began
BlockedBefore == {i \in 1..Len(pre_gdf) : InSomeBuilding(pre_gdf[i].geometry)}

\* the known points of the last call and, for a blocked row, those the ball query finds
KnownBefore == {pre_gdf[i].geometry : i \in (1..Len(pre_gdf)) \ BlockedBefore}

ProjectionOf(i) == nearest_on_boundary(CHOOSE r \in {building_gdf[b] : b \in 1..Len(building_gdf)} : StrictlyInside(pre_gdf[i].geometry, r), pre_gdf[i].geometry)

NearbyKnown(i) == {q \in KnownBefore : Dist2(q, ProjectionOf(i)) <= last_args[1] * last_args[1]}

\* the blocked rows of the last call that were placed by the random strategy
RandomlyPlaced == {i \in BlockedBefore : avoid_algorithm = "random" \/ NearbyKnown(i) = {}}

\* C1: after avoid_buildings, under either strategy, every point that lay strictly inside a
\* building before the call lies outside that building
C1_RelocatedOutsideBuilding ==
    AfterAvoid =>
        \A i \in 1..Len(pre_gdf) : \A b \in 1..Len(building_gdf) :
            StrictlyInside(pre_gdf[i].geometry, building_gdf[b]) => ~StrictlyInside(boring_gdf[i].geometry, building_gdf[b])

\* the candidate of the sweep around bp that is farthest from the known points: the greatest
\* minimum distance, the first such candidate on a tie
FarthestCandidate(i) ==
    LET bp == ProjectionOf(i)
        cand == [k \in 1..16 |-> Offset(bp, last_args[1] \div 2, k - 1)]
        far(k) == MinOf({Distance(cand[k], q) : q \in NearbyKnown(i)})
        k0 == CHOOSE k \in 1..16 : (\A j \in 1..16 : far(j) <= far(k)) /\ (\A j \in 1..(k - 1) : far(j) < far(k))
    IN cand[k0]

\* C2: in uncertainty mode, a blocked point with a known point within searchRadius of its
\* boundary projection is placed on the candidate farthest from the nearby known points
C2_ChoosesFarthestCandidate ==
    (AfterAvoid /\ avoid_algorithm = "uncertainty") =>
        \A i \in BlockedBefore : NearbyKnown(i) # {} => boring_gdf[i].geometry = FarthestCandidate(i)

\* C3: for every boring point, moved is true exactly when its geometry differs from original_geom
C3_MovedIffGeometryDiffers ==
    hasattr("boring_gdf") => \A i \in Rows : boring_gdf[i].moved <=> (boring_gdf[i].geometry # boring_gdf[i].original_geom)

Partition(zone, type) == {i \in Rows : boring_gdf[i].DCFQ = zone /\ boring_gdf[i].type = type}

ZoneNames == {boring_gdf[i].DCFQ : i \in Rows}

\* C4: within each (zone, type) partition the code numbers are exactly 1..N, each once;
\* BORING codes carry the prefix S and WBORING codes the prefix W
C4_CodesDensePerPartition ==
    hasattr("boring_gdf") =>
        /\ \A zone \in ZoneNames : \A type \in {"BORING", "WBORING"} :
              /\ {DigitsValue(boring_gdf[i].code.digits) : i \in Partition(zone, type)} = 1..Cardinality(Partition(zone, type))
              /\ \A i, j \in Partition(zone, type) : boring_gdf[i].code = boring_gdf[j].code => i = j
        /\ \A i \in Rows : boring_gdf[i].code.prefix = (IF boring_gdf[i].type = "BORING" THEN "S" ELSE "W")
        /\ \A i \in Rows : boring_gdf[i].type \in {"BORING", "WBORING"}

C4_Witness ==
    /\ AfterPlan
    /\ Cardinality(ZoneNames) = 2
    /\ \E zone \in ZoneNames : Cardinality(Partition(zone, "BORING")) >= 2 /\ Cardinality(Partition(zone, "WBORING")) >= 2

\* the step that applies to a row: by type, and by key area
StepOf(r) ==
    IF r.type = "BORING"
    THEN (IF r.is_key_area THEN plan_params.boring_step_zdqy ELSE plan_params.boring_step)
    ELSE (IF r.is_key_area THEN plan_params.wboring_step_zdqy ELSE plan_params.wboring_step)

\* C5: every output point's (row, col) is congruent to the offsets modulo the step of its type
\* and area class, also after avoid_buildings has moved the point
C5_StepCongruence ==
    hasattr("boring_gdf") =>
        \A i \in Rows :
            /\ (boring_gdf[i].col - plan_params.offset_x) % StepOf(boring_gdf[i]) = 0
            /\ (boring_gdf[i].row - plan_params.offset_y) % StepOf(boring_gdf[i]) = 0

C5_Witness ==
    /\ AfterAvoid
    /\ plan_params.offset_x = 1
    /\ \E i \in Rows : boring_gdf[i].geometry # pre_gdf[i].geometry /\ boring_gdf[i].type = "BORING"
    /\ \E i \in Rows : boring_gdf[i].is_key_area /\ boring_gdf[i].type = "WBORING"
    /\ \E i \in Rows : ~boring_gdf[i].is_key_area

\* the lattice of the zones' bounding box for a grid size, up to and including the far edges
LatticeCoordinates(grid_size) ==
    LET minx == MinOf({dcfq_gdf[j].x0 : j \in 1..Len(dcfq_gdf)})
        miny == MinOf({dcfq_gdf[j].y0 : j \in 1..Len(dcfq_gdf)})
        maxx == MaxOf({dcfq_gdf[j].x1 : j \in 1..Len(dcfq_gdf)})
        maxy == MaxOf({dcfq_gdf[j].y1 : j \in 1..Len(dcfq_gdf)})
    IN {<< minx + i * grid_size, miny + j * grid_size >> : i \in 0..((maxx - minx) \div grid_size), j \in 0..((maxy - miny) \div grid_size)}

InSomeZone(p) == \E j \in 1..Len(dcfq_gdf) : StrictlyInside(p, dcfq_gdf[j])

GridGeometries == {grid_gdf[k].geometry : k \in 1..Len(grid_gdf)}

AfterCreateGrid == last_op = "create_grid"

\* C6: every point create_grid returns is strictly within some boundary region, and no lattice
\* coordinate that is outside or on the edge of every region is returned
C6_GridStrictlyInsideBoundary ==
    AfterCreateGrid =>
        /\ \A p \in GridGeometries : InSomeZone(p)
        /\ \A p \in LatticeCoordinates(last_args[1]) : ~InSomeZone(p) => p \notin GridGeometries

C6_Witness ==
    /\ AfterCreateGrid
    /\ Len(dcfq_gdf) = 2
    /\ GridGeometries # {}
    /\ \E p \in LatticeCoordinates(last_args[1]) : ~InSomeZone(p) /\ p[1] > 0 /\ p[2] > 0

\* the scenario of C7: one 100m x 100m zone with its lower-left corner at the origin, gridSize = 20
SquareZoneGrid20 == AfterCreateGrid /\ dcfq_gdf = << Zone("A", 0, 0, 100, 100) >> /\ last_args[1] = 20 * M

\* C7 as stated: 25 grid points, one at each (20 i, 20 j) for i, j in 0..4
C7_TwentyFivePoints ==
    SquareZoneGrid20 =>
        /\ Len(grid_gdf) = 25
        /\ GridGeometries = {<< 20 * M * i, 20 * M * j >> : i \in 0..4, j \in 0..4}

\* C7 amended: 16 grid points, one at each (20 i, 20 j) for i, j in 1..4; the lattice points
\* with x = 0 or y = 0 lie on the zone's edge and are not returned
C7_SixteenInteriorPoints ==
    SquareZoneGrid20 =>
        /\ Len(grid_gdf) = 16
        /\ GridGeometries = {<< 20 * M * i, 20 * M * j >> : i \in 1..4, j \in 1..4}
        /\ \A k \in 1..Len(grid_gdf) : grid_gdf[k].geometry = << 20 * M * grid_gdf[k].col, 20 * M * grid_gdf[k].row >>

C7_Witness == SquareZoneGrid20 /\ Len(grid_gdf) > 0

\* the orders the caller may hand the collection over in: each exchange of two neighbouring
\* rows (these generate every order), and the reversal
Shuffles(n) ==
    {[k \in 1..n |-> IF k = a THEN a + 1 ELSE IF k = a + 1 THEN a ELSE k] : a \in 1..(n - 1)} \cup {[k \in 1..n |-> n + 1 - k]}

\* the collection in the order sigma: position k holds the row labelled sigma[k]
Shuffled(gdf, sigma) == [k \in 1..Len(gdf) |-> gdf[sigma[k]]]

\* the last avoid_buildings call repeated on the shuffled input, its result listed by row label again
\* (every order in Shuffles is its own inverse)
AvoidShuffled(sigma) ==
    Shuffled(avoid_buildings(Shuffled(pre_gdf, sigma), building_gdf, last_args[1], avoid_algorithm, last_args[2]), sigma)

C9_NoBlockedPointNoChange ==
    (AfterAvoid /\ BlockedBefore = {}) => boring_gdf = pre_gdf

C9_Witness ==
    /\ AfterAvoid
    /\ BlockedBefore = {}
    /\ boring_gdf = pre_gdf
    /\ \E i \in Rows : boring_gdf[i].moved
    /\ \E i \in Rows : \E b \in 1..Len(building_gdf) : WithinClosed(boring_gdf[i].geometry, building_gdf[b])

\* C10: avoid_buildings adds no row, deletes none and renumbers none: the same rows with the
\* same id, type, code and zone
C10_SameRecords ==
    AfterAvoid =>
        /\ Len(boring_gdf) = Len(pre_gdf)
        /\ \A i \in 1..Len(pre_gdf) :
              /\ boring_gdf[i].id = pre_gdf[i].id
              /\ boring_gdf[i].type = pre_gdf[i].type
              /\ boring_gdf[i].code = pre_gdf[i].code
              /\ boring_gdf[i].DCFQ = pre_gdf[i].DCFQ

C10_Witness ==
    /\ AfterAvoid
    /\ \E i \in Rows : boring_gdf[i].geometry # pre_gdf[i].geometry
    /\ \E i \in Rows : boring_gdf[i].geometry = pre_gdf[i].geometry
    /\ Cardinality({boring_gdf[i].code : i \in Rows}) >= 2

\* C11: after any sequence of avoid_buildings calls and point moves, every point's
\* original_geom equals the geometry the point had in the frame plan_boring returned
C11_OriginalGeomPreserved ==
    hasattr("boring_gdf") =>
        /\ Len(boring_gdf) = Len(planned_gdf)
        /\ \A i \in Rows : boring_gdf[i].original_geom = planned_gdf[i].geometry

C11_Witness ==
    /\ last_op = "on_point_moved"
    /\ ops = 2
    /\ \E i \in Rows : pre_gdf[i].geometry # planned_gdf[i].geometry /\ boring_gdf[i].original_geom = planned_gdf[i].geometry
    /\ \E j \in Rows : boring_gdf[j].geometry # pre_gdf[j].geometry /\ pre_gdf[j].geometry = planned_gdf[j].geometry

\* the blocked rows of the last call that the uncertainty sweep placed
SweepPlaced == BlockedBefore \ RandomlyPlaced

\* C12: every point avoid_buildings relocates ends within searchRadius of the projection of its
\* pre-call geometry on its building's boundary; a point placed by the uncertainty sweep is one
\* of the 16 candidates, at searchRadius * 0.5 from the projection (to the centimetre)
C12_RelocatedWithinRadius ==
    AfterAvoid =>
        /\ \A i \in BlockedBefore : Distance(boring_gdf[i].geometry, ProjectionOf(i)) <= last_args[1]
        /\ \A i \in SweepPlaced :
              /\ \E k \in 0..15 : boring_gdf[i].geometry = Offset(ProjectionOf(i), last_args[1] \div 2, k)
              /\ Abs(Distance(boring_gdf[i].geometry, ProjectionOf(i)) - last_args[1] \div 2) <= 1

C12_Witness ==
    /\ AfterAvoid
    /\ SweepPlaced # {}
    /\ \E i \in RandomlyPlaced : Distance(boring_gdf[i].geometry, ProjectionOf(i)) > last_args[1] \div 2

\* the generator state after n calls of random.uniform since random.seed(seed)
RECURSIVE Draw(_, _)
Draw(seed, n) == IF n = 0 THEN seed ELSE RngNext(Draw(seed, n - 1))

\* where the random strategy puts blocked row i in the last call: each row placed at random
\* ahead of it has taken two draws
RandomPlacement(i) ==
    LET n == Cardinality({j \in RandomlyPlaced : j < i})
    IN Offset(ProjectionOf(i), UniformDistance(Draw(last_args[2], 2 * n + 2), last_args[1]), UniformAngle(Draw(last_args[2], 2 * n + 1)))

\* the 16 positions of the sweep around the projection of blocked row i
SweepCandidates(i) == {Offset(ProjectionOf(i), last_args[1] \div 2, k) : k \in 0..15}

\* C21: a blocked point is placed by the random strategy when the mode is random, or there is no
\* non-blocked point, or none within searchRadius of its boundary projection; otherwise, in
\* uncertainty mode, it is placed on one of the 16 candidates
C21_StrategyByNeighbours ==
    AfterAvoid =>
        \A i \in BlockedBefore :
            IF avoid_algorithm = "random" \/ KnownBefore = {} \/ NearbyKnown(i) = {}
            THEN boring_gdf[i].geometry = RandomPlacement(i)
            ELSE avoid_algorithm = "uncertainty" /\ boring_gdf[i].geometry \in SweepCandidates(i)

C21_Witness ==
    /\ AfterAvoid
    /\ avoid_algorithm = "uncertainty"
    /\ KnownBefore # {}
    /\ \E i \in BlockedBefore : NearbyKnown(i) = {} /\ boring_gdf[i].geometry \notin SweepCandidates(i)
    /\ \E i \in BlockedBefore : NearbyKnown(i) # {} /\ boring_gdf[i].geometry # RandomPlacement(i)

\* the scores of the 16 candidates of blocked row i, each times searchRadius
CandidateScores(i) ==
    LET valid_points == ValidPoints(pre_gdf, building_gdf)
        indices == QueryBall(valid_points, ProjectionOf(i), last_args[1])
        sample_points == SamplePoints(ProjectionOf(i), last_args[1])
    IN [k \in 1..16 |-> Uncertainty(MinDist(sample_points[k], valid_points, indices), last_args[1])]

\* C22: the uncertainty score of each of the 16 candidates lies in [0, 1]
C22_ScoreInUnitInterval ==
    (AfterAvoid /\ avoid_algorithm = "uncertainty") =>
        \A i \in SweepPlaced : \A k \in 1..16 : 0 <= CandidateScores(i)[k] /\ CandidateScores(i)[k] <= last_args[1]

\* the key-area class of a grid point
InKeyArea(p) == hasattr("zdqy_gdf") /\ \E j \in 1..Len(zdqy_gdf) : StrictlyInside(p, zdqy_gdf[j])

\* the test of one type on grid row g: both axes congruent to the offsets modulo the step of the class
Passes(g, step, step_zdqy) ==
    LET st == IF InKeyArea(g.geometry) THEN step_zdqy ELSE step
    IN (g.col - plan_params.offset_x) % st = 0 /\ (g.row - plan_params.offset_y) % st = 0

\* the output rows of a type planned from grid row g
RowsOf(g, type) == {i \in Rows : boring_gdf[i].id = g.id /\ boring_gdf[i].type = type}

\* C23: plan_boring takes the BORING test and the WBORING test independently for each grid point:
\* one BORING row (code S) exactly when the first passes, one WBORING row (code W) exactly when the
\* second passes, so two rows when both pass and none when neither does
C23_TestsIndependent ==
    AfterPlan =>
        \A k \in 1..Len(grid_gdf) :
            /\ Cardinality(RowsOf(grid_gdf[k], "BORING")) = (IF Passes(grid_gdf[k], plan_params.boring_step, plan_params.boring_step_zdqy) THEN 1 ELSE 0)
            /\ Cardinality(RowsOf(grid_gdf[k], "WBORING")) = (IF Passes(grid_gdf[k], plan_params.wboring_step, plan_params.wboring_step_zdqy) THEN 1 ELSE 0)
            /\ \A i \in RowsOf(grid_gdf[k], "BORING") : boring_gdf[i].code.prefix = "S" /\ boring_gdf[i].geometry = grid_gdf[k].geometry
            /\ \A i \in RowsOf(grid_gdf[k], "WBORING") : boring_gdf[i].code.prefix = "W" /\ boring_gdf[i].geometry = grid_gdf[k].geometry

C23_Witness ==
    /\ AfterPlan
    /\ \E k \in 1..Len(grid_gdf) : RowsOf(grid_gdf[k], "BORING") # {} /\ RowsOf(grid_gdf[k], "WBORING") # {}
    /\ \E k \in 1..Len(grid_gdf) : RowsOf(grid_gdf[k], "BORING") # {} /\ RowsOf(grid_gdf[k], "WBORING") = {}
    /\ \E k \in 1..Len(grid_gdf) : RowsOf(grid_gdf[k], "BORING") = {} /\ RowsOf(grid_gdf[k], "WBORING") = {}

\* the candidate of the sweep for blocked row i that is nearest to the non-blocked points of the
\* frame as it was before the call, the first such candidate on a tie
SnapshotCandidate(i) ==
    LET bp == ProjectionOf(i)
        cand == [k \in 1..16 |-> Offset(bp, last_args[1] \div 2, k - 1)]
        known == NearbyKnown(i)
        near == [k \in 1..16 |-> ISqrt(MinOf({Dist2(cand[k], q) : q \in known}))]
        k0 == CHOOSE k \in 1..16 : (\A j \in 1..16 : near[k] <= near[j]) /\ (\A j \in 1..(k - 1) : near[j] > near[k])
    IN cand[k0]

\* C25: avoid_buildings leaves the geometry and moved flag of every non-blocked point as they
\* were, and places a blocked point from the non-blocked points of the pre-call frame only
C25_OnlyBlockedChangeFromSnapshot ==
    AfterAvoid =>
        /\ \A i \in (1..Len(pre_gdf)) \ BlockedBefore :
              boring_gdf[i].geometry = pre_gdf[i].geometry /\ boring_gdf[i].moved = pre_gdf[i].moved
        /\ \A i \in SweepPlaced : boring_gdf[i].geometry = SnapshotCandidate(i)

C25_Witness ==
    /\ AfterAvoid
    /\ \E i, j \in SweepPlaced : i < j /\ ~InSomeBuilding(boring_gdf[i].geometry) /\ Dist2(boring_gdf[i].geometry, ProjectionOf(j)) <= last_args[1] * last_args[1]

\* C26: no two records of the planned collection share an identifier, and after
\* on_point_moved(id, x, y) every record carrying that id has geometry (x, y)
C26_IdentifierAddressesOnePoint ==
    hasattr("boring_gdf") =>
        /\ \A i, j \in Rows : boring_gdf[i].id = boring_gdf[j].id => i = j
        /\ last_op = "on_point_moved" => \A i \in Rows : boring_gdf[i].id = last_args[1] => boring_gdf[i].geometry = last_args[2]

\* C27: plan_boring with a non-empty zones frame and a grid of zero points returns an empty
\* collection and does not fail
C27_EmptyGridEmptyPlan ==
    (last_op = "plan_boring" /\ grid_gdf = << >> /\ dcfq_gdf # << >>) =>
        (raised = "none" /\ hasattr("boring_gdf") /\ boring_gdf = << >>)

Next ==
    \/ \E mode \in {"random", "uncertainty"} : SetAvoidAlgorithm(mode)
    \/ \E grid_size \in GridSizes : CreateGrid(grid_size)
    \/ \E params \in ParamSets : PlanBoring(params)
    \/ \E search_radius \in Radii, seed \in Seeds : AvoidBuildings(search_radius, seed)
    \/ \E point_id \in PointIds : \E new_point \in DropTargets(point_id) : OnPointMoved(point_id, new_point)

Spec == Init /\ [][Next]_vars

(***************************************************************************)
(* Direct calls of the planner: create_grid, plan_boring and               *)
(* avoid_buildings applied once each, in pipeline order, to arguments the  *)
(* planner itself does not restrict.  dcfq_gdf holds the boundary / zones  *)
(* frame of the latest call ("dcfq_gdf" is not in attrs when it was None). *)
(***************************************************************************)
\* boundary and zone frames: those of ZoneSets, a frame without rows, two overlapping regions
CallZoneSets == ZoneSets \cup { << >>, << Zone("A", 0, 0, 70, 100), Zone("B", 30, 0, 100, 100) >> }

CallGridSizes == { 20 * M, 40 * M, 0, -(20 * M) }

\* ParamSets, a zero and a negative step for each kind, and every grid point planned
CallParamSets == ParamSets \cup { Params(0, 1, 8, 4, 0, 0), Params(2, 0, 8, 4, 0, 0), Params(-2, 1, 8, 4, 0, 0), Params(2, 1, 8, -4, 0, 0), Params(1, 1, 1, 1, 0, 0) }

CallRadii == { 20 * M, 0, -(20 * M) }

\* BuildingSets, and a building with an edge on a grid line
CallBuildingSets == BuildingSets \cup { << Rect(10, 20, 70, 70) >> }

\* scipy.spatial.KDTree of the installation: the compiled tree compares squared distances, so
\* a negative r acts as |r|; the pure-Python tree finds no point within a negative r
KDTreeBuilds == { "compiled", "python" }

PlannerInit ==
    /\ dcfq_gdf = << >>
    /\ zdqy_gdf \in KeyAreaSets
    /\ building_gdf \in CallBuildingSets
    /\ attrs = {"building_gdf"} \cup (IF zdqy_gdf = << >> THEN {} ELSE {"zdqy_gdf"})
    /\ grid_gdf = << >>
    /\ boring_gdf = << >>
    /\ avoid_algorithm = "uncertainty"
    /\ plan_params = Params(2, 1, 8, 4, 0, 0)
    /\ last_op = "init"
    /\ last_args = << >>
    /\ pre_gdf = << >>
    /\ raised = "none"
    /\ ops = 0
    /\ planned_gdf = << >>
    /\ gdf_bounds = << >>
    /\ central_meridian = 0

\* grid_gdf = planner.create_grid(boundary_gdf, grid_size)
CallCreateGrid(boundary_gdf, grid_size) ==
    /\ last_op = "init"
    /\ dcfq_gdf' = boundary_gdf
    /\ raised' = CreateGridRaises(boundary_gdf, grid_size)
    /\ IF raised' = "none"
       THEN /\ grid_gdf' = create_grid(boundary_gdf, grid_size)
            /\ attrs' = attrs \cup {"dcfq_gdf", "grid_gdf"}
       ELSE /\ attrs' = attrs \cup {"dcfq_gdf"}
            /\ UNCHANGED grid_gdf
    /\ last_op' = "create_grid"
    /\ last_args' = << grid_size >>
    /\ UNCHANGED << zdqy_gdf, building_gdf, boring_gdf, avoid_algorithm, plan_params, pre_gdf, ops, planned_gdf, gdf_bounds, central_meridian >>

\* boring_gdf = planner.plan_boring(grid_gdf, dcfq, zdqy_gdf, params), dcfq being None when dcfq_is_none
CallPlanBoring(dcfq, dcfq_is_none, params) ==
    /\ last_op = "create_grid"
    /\ raised = "none"
    /\ dcfq_is_none => dcfq = << >>
    /\ dcfq_gdf' = dcfq
    /\ raised' = PlanBoringRaises(grid_gdf, dcfq, dcfq_is_none, zdqy_gdf, hasattr("zdqy_gdf"), params)
    /\ IF raised' = "none"
       THEN /\ boring_gdf' = plan_boring(grid_gdf, dcfq, zdqy_gdf, hasattr("zdqy_gdf"), params)
            /\ attrs' = (attrs \ {"dcfq_gdf"}) \cup {"dcfq_gdf", "boring_gdf"}
            /\ plan_params' = params
            /\ planned_gdf' = boring_gdf'
       ELSE /\ attrs' = (attrs \ {"dcfq_gdf"}) \cup (IF dcfq_is_none THEN {} ELSE {"dcfq_gdf"})
            /\ UNCHANGED << boring_gdf, plan_params, planned_gdf >>
    /\ last_op' = "plan_boring"
    /\ last_args' = << params >>
    /\ UNCHANGED << zdqy_gdf, building_gdf, grid_gdf, avoid_algorithm, pre_gdf, ops, gdf_bounds, central_meridian >>

\* random.seed(seed); planner.avoid_buildings(boring_gdf, building_gdf, search_radius), which
\* rewrites the rows of boring_gdf in place
CallAvoidBuildings(search_radius, seed, tree) ==
    /\ last_op = "plan_boring"
    /\ raised = "none"
    /\ (search_radius >= 0 \/ avoid_algorithm = "random") => tree = "compiled"
    /\ LET algorithm == IF search_radius < 0 /\ tree = "python" THEN "random" ELSE avoid_algorithm
       IN /\ raised' = AvoidRaises(boring_gdf, building_gdf, search_radius, algorithm)
          /\ boring_gdf' = avoid_buildings_in_place(boring_gdf, building_gdf, search_radius, algorithm, seed)
    /\ pre_gdf' = boring_gdf
    /\ last_op' = "avoid_buildings"
    /\ last_args' = << search_radius, seed >>
    /\ UNCHANGED << attrs, dcfq_gdf, zdqy_gdf, building_gdf, grid_gdf, avoid_algorithm, plan_params, ops, planned_gdf, gdf_bounds, central_meridian >>

PlannerNext ==
    \/ \E mode \in {"random", "uncertainty"} : SetAvoidAlgorithm(mode)
    \/ \E boundary_gdf \in CallZoneSets, grid_size \in CallGridSizes : CallCreateGrid(boundary_gdf, grid_size)
    \/ \E dcfq \in CallZoneSets, dcfq_is_none \in BOOLEAN, params \in CallParamSets : CallPlanBoring(dcfq, dcfq_is_none, params)
    \/ \E search_radius \in CallRadii, seed \in Seeds, tree \in KDTreeBuilds : CallAvoidBuildings(search_radius, seed, tree)

PlannerSpec == PlannerInit /\ [][PlannerNext]_vars

(***************************************************************************)
(* Properties of the direct calls                                          *)
(***************************************************************************)
\* C13: create_grid with grid_size <= 0 fails with InvalidParameterError and returns no grid
C13_NonPositiveGridSizeRejected ==
    (AfterCreateGrid /\ last_args[1] <= 0) => (raised = "InvalidParameterError" /\ ~hasattr("grid_gdf"))

\* the steps of the last plan_boring call
StepsOf(params) == {params.boring_step, params.boring_step_zdqy, params.wboring_step, params.wboring_step_zdqy}

\* C14: plan_boring with a step that is not a positive integer fails with InvalidParameterError
\* and returns no points
C14_NonPositiveStepRejected ==
    (last_op = "plan_boring" /\ \E step \in StepsOf(last_args[1]) : step <= 0) =>
        (raised = "InvalidParameterError" /\ ~hasattr("boring_gdf"))

\* C15: avoid_buildings with search_radius <= 0 fails with InvalidParameterError and leaves
\* every point's geometry and moved flag as they were
C15_NonPositiveRadiusRejected ==
    (AfterAvoid /\ last_args[1] <= 0) =>
        /\ raised = "InvalidParameterError"
        /\ \A i \in 1..Len(pre_gdf) : boring_gdf[i].geometry = pre_gdf[i].geometry /\ boring_gdf[i].moved = pre_gdf[i].moved

\* C16: plan_boring with an empty or unset zones frame fails with MissingZoneDataError
C16_MissingZonesRejected ==
    (last_op = "plan_boring" /\ (~hasattr("dcfq_gdf") \/ dcfq_gdf = << >>)) => raised = "MissingZoneDataError"

\* C17: create_grid with a boundary of zero regions and a positive grid_size returns an empty
\* grid and does not fail
C17_EmptyBoundaryEmptyGrid ==
    (AfterCreateGrid /\ dcfq_gdf = << >> /\ last_args[1] > 0) =>
        (raised = "none" /\ hasattr("grid_gdf") /\ grid_gdf = << >>)

\* the zone rows of dcfq_gdf that carry the identifier zone
ZonesNamed(zone) == {j \in 1..Len(dcfq_gdf) : dcfq_gdf[j].DCFQ = zone}

\* the grid rows no zone strictly contains
GridOutsideZones == {k \in 1..Len(grid_gdf) : ~InSomeZone(grid_gdf[k].geometry)}

\* C19: every point plan_boring returns carries the identifier of a zone that strictly
\* contains it, and no grid point outside every zone is returned
C19_OutputInsideItsZone ==
    AfterPlan =>
        /\ \A i \in Rows : \E j \in ZonesNamed(boring_gdf[i].DCFQ) : StrictlyInside(boring_gdf[i].geometry, dcfq_gdf[j])
        /\ \A k \in GridOutsideZones : \A i \in Rows : boring_gdf[i].id # grid_gdf[k].id /\ boring_gdf[i].geometry # grid_gdf[k].geometry

C19_Witness ==
    /\ AfterPlan
    /\ Rows # {}
    /\ \E k \in GridOutsideZones :
          GridCondition([is_key_area |-> FALSE, col |-> grid_gdf[k].col, row |-> grid_gdf[k].row], plan_params.offset_x, plan_params.offset_y, plan_params.boring_step, plan_params.boring_step_zdqy)

\* C20: create_grid returns each lattice coordinate at most once, also when regions overlap
C20_CoordinateReturnedOnce ==
    (AfterCreateGrid /\ raised = "none") =>
        \A k1, k2 \in 1..Len(grid_gdf) : grid_gdf[k1].geometry = grid_gdf[k2].geometry => k1 = k2

(***************************************************************************)
(* CoordinateSystem.auto_detect_central_meridian, applied to the longitude *)
(* extent (total_bounds[0], total_bounds[2]) of a frame, in whole degrees  *)
(***************************************************************************)
\* list(range(75, 136, 3))
central_meridians == [i \in 1..21 |-> 75 + 3 * (i - 1)]

\* the longitudes an extent may start and end at
Longitudes == 70..140

\* abs(x - center_lon) with center_lon = (bounds[0] + bounds[2]) / 2, doubled to stay in integers
MeridianKey(x, bounds) == Abs(2 * x - (bounds[1] + bounds[2]))

\* max(..., key=lambda x: -abs(x - center_lon)) over the reversed list: the last nearest meridian
auto_detect_last_nearest(bounds) ==
    LET k == CHOOSE k \in 1..Len(central_meridians) :
                 /\ \A j \in 1..Len(central_meridians) : MeridianKey(central_meridians[k], bounds) <= MeridianKey(central_meridians[j], bounds)
                 /\ \A j \in (k + 1)..Len(central_meridians) : MeridianKey(central_meridians[j], bounds) > MeridianKey(central_meridians[k], bounds)
    IN central_meridians[k]

\* min(self.central_meridians, key=lambda x: abs(x - center_lon)): the first element with the least key
auto_detect_central_meridian(bounds) ==
    LET k == CHOOSE k \in 1..Len(central_meridians) :
                 /\ \A j \in 1..Len(central_meridians) : MeridianKey(central_meridians[k], bounds) <= MeridianKey(central_meridians[j], bounds)
                 /\ \A j \in 1..(k - 1) : MeridianKey(central_meridians[j], bounds) > MeridianKey(central_meridians[k], bounds)
    IN central_meridians[k]

CoordInit ==
    /\ gdf_bounds \in {<< lo, hi >> : lo \in Longitudes, hi \in Longitudes}
    /\ gdf_bounds[1] <= gdf_bounds[2]
    /\ central_meridian = 0
    /\ dcfq_gdf = << >>
    /\ zdqy_gdf = << >>
    /\ building_gdf = << >>
    /\ attrs = {}
    /\ grid_gdf = << >>
    /\ boring_gdf = << >>
    /\ avoid_algorithm = "uncertainty"
    /\ plan_params = Params(2, 1, 8, 4, 0, 0)
    /\ last_op = "init"
    /\ last_args = << >>
    /\ pre_gdf = << >>
    /\ raised = "none"
    /\ ops = 0
    /\ planned_gdf = << >>

\* central_meridian = coord_sys.auto_detect_central_meridian(gdf)
AutoDetectCentralMeridian ==
    /\ last_op = "init"
    /\ central_meridian' = auto_detect_central_meridian(gdf_bounds)
    /\ last_op' = "auto_detect_central_meridian"
    /\ UNCHANGED << attrs, dcfq_gdf, zdqy_gdf, building_gdf, grid_gdf, boring_gdf, avoid_algorithm, plan_params, last_args, pre_gdf, raised, ops, planned_gdf, gdf_bounds >>

CoordNext == AutoDetectCentralMeridian

CoordSpec == CoordInit /\ [][CoordNext]_vars

Meridians == {75 + 3 * i : i \in 0..20}

\* twice the distance from meridian m to the mean longitude of the extent
TwiceOff(m) == Abs(2 * m - (gdf_bounds[1] + gdf_bounds[2]))

\* C18: the meridian returned for an extent is one of 75, 78, ..., 135, no meridian is nearer to
\* the midpoint of the extent's min and max longitude, and of two equally near the lower is returned
C18_NearestMeridianLowestOnTie ==
    last_op = "auto_detect_central_meridian" =>
        /\ central_meridian \in Meridians
        /\ \A m \in Meridians : TwiceOff(central_meridian) <= TwiceOff(m)
        /\ \A m \in Meridians : TwiceOff(m) = TwiceOff(central_meridian) => central_meridian <= m

C18_Witness ==
    /\ last_op = "auto_detect_central_meridian"
    /\ gdf_bounds[1] < gdf_bounds[2]
    /\ \E m \in Meridians : m > central_meridian /\ TwiceOff(m) = TwiceOff(central_meridian)

(***************************************************************************)
(* Sessions in which the grid is generated again after the points are      *)
(* planned                                                                 *)
(***************************************************************************)
\* the grid request once more: grid_gdf is the only field it writes (counted in ops)
RegenerateGrid(grid_size) ==
    /\ hasattr("dcfq_gdf")
    /\ hasattr("grid_gdf")
    /\ hasattr("boring_gdf")
    /\ ops < MaxOps
    /\ grid_gdf' = create_grid(dcfq_gdf, grid_size)
    /\ last_op' = "create_grid"
    /\ last_args' = << grid_size >>
    /\ raised' = "none"
    /\ ops' = ops + 1
    /\ UNCHANGED << attrs, dcfq_gdf, zdqy_gdf, building_gdf, boring_gdf, avoid_algorithm, plan_params, pre_gdf, planned_gdf, gdf_bounds, central_meridian >>

RegenNext ==
    \/ Next
    \/ \E grid_size \in GridSizes : RegenerateGrid(grid_size)

RegenSpec == Init /\ [][RegenNext]_vars

\* the grid has been generated again since the current boring points were planned
Regenerated == last_op = "create_grid" /\ planned_gdf # << >>

\* C24: after a regeneration of the grid, and until plan_boring runs again, the points planned
\* from the previous grid are not the current boring collection: the field that avoidance and
\* export test for is absent
C24_RegenerationInvalidatesPlan ==
    Regenerated => ~hasattr("boring_gdf")

(***************************************************************************)
(* The main window: requests arriving from the menu, the toolbar and the   *)
(* tool panel, translated from MainWindow as written                       *)
(***************************************************************************)
\* the params a generate-grid request carries: the handler's default dict (params is None), the
\* checked flag of QAction.triggered when the binding forwards it, or the tool panel's dict
GridParams(is_dict, keys, grid_size) == [is_dict |-> is_dict, keys |-> keys, grid_size |-> grid_size]

DefaultGridParams == GridParams(TRUE, {"grid_size", "random_offset", "offset_x", "offset_y"}, 20 * M)

CheckedFlag == GridParams(FALSE, {}, 0)

ToolPanelGridParams == {GridParams(TRUE, {"grid_size", "random_offset"}, g) : g \in GridSizes}

MenuGridParams == {DefaultGridParams, CheckedFlag}

\* the keys generate_grid reads from params, and the keyword arguments it passes on
KeysRead == {"grid_size", "random_offset", "offset_x", "offset_y"}

KeywordsPassed == {"random_offset", "offset_x", "offset_y"}

\* create_grid(self, boundary_gdf, grid_size) takes no keyword beyond its two parameters
CreateGridKeywords == {}

\* what the body of generate_grid's try block raises for params
GenerateGridRaises(params) ==
    IF ~params.is_dict THEN "TypeError"
    ELSE IF ~(KeysRead \subseteq params.keys) THEN "KeyError"
    ELSE IF ~(KeywordsPassed \subseteq CreateGridKeywords) THEN "TypeError"
    ELSE "none"

\* the radii of spin_avoid_radius used by the requests
AppRadii == Radii

\* the state after MainWindow.__init__: no dataset attribute exists
AppInit ==
    /\ attrs = {}
    /\ dcfq_gdf = << >>
    /\ zdqy_gdf = << >>
    /\ building_gdf = << >>
    /\ grid_gdf = << >>
    /\ boring_gdf = << >>
    /\ avoid_algorithm = "uncertainty"
    /\ plan_params = Params(2, 1, 8, 4, 0, 0)
    /\ last_op = "init"
    /\ last_args = << >>
    /\ pre_gdf = << >>
    /\ raised = "none"
    /\ ops = 0
    /\ planned_gdf = << >>
    /\ gdf_bounds = << >>
    /\ central_meridian = 0

\* load_dcfq_file with a readable file that carries a coordinate system
LoadDcfqFile(zones) ==
    /\ dcfq_gdf' = zones
    /\ attrs' = attrs \cup {"dcfq_gdf"}
    /\ last_op' = "load_dcfq_file"
    /\ last_args' = << >>
    /\ raised' = "none"
    /\ UNCHANGED << zdqy_gdf, building_gdf, grid_gdf, boring_gdf, avoid_algorithm, plan_params, pre_gdf, ops, planned_gdf, gdf_bounds, central_meridian >>

\* load_zdqy_file
LoadZdqyFile(key_areas) ==
    /\ zdqy_gdf' = key_areas
    /\ attrs' = attrs \cup {"zdqy_gdf"}
    /\ last_op' = "load_zdqy_file"
    /\ last_args' = << >>
    /\ raised' = "none"
    /\ UNCHANGED << dcfq_gdf, building_gdf, grid_gdf, boring_gdf, avoid_algorithm, plan_params, pre_gdf, ops, planned_gdf, gdf_bounds, central_meridian >>

\* load_building_file
LoadBuildingFile(buildings) ==
    /\ building_gdf' = buildings
    /\ attrs' = attrs \cup {"building_gdf"}
    /\ last_op' = "load_building_file"
    /\ last_args' = << >>
    /\ raised' = "none"
    /\ UNCHANGED << dcfq_gdf, zdqy_gdf, grid_gdf, boring_gdf, avoid_algorithm, plan_params, pre_gdf, ops, planned_gdf, gdf_bounds, central_meridian >>

\* MainWindow.generate_grid(params): a warning without zones; else the try block, whose
\* exception is shown in a message box and leaves the fields as they were. ops records that a
\* request was made with zones loaded
GenerateGrid(params) ==
    /\ last_op' = "generate_grid"
    /\ last_args' = << params >>
    /\ IF ~hasattr("dcfq_gdf")
       THEN /\ raised' = "warning"
            /\ UNCHANGED << grid_gdf, attrs, ops >>
       ELSE /\ raised' = GenerateGridRaises(params)
            /\ ops' = 1
            /\ IF raised' = "none"
               THEN /\ grid_gdf' = create_grid(dcfq_gdf, params.grid_size)
                    /\ attrs' = attrs \cup {"grid_gdf"}
               ELSE UNCHANGED << grid_gdf, attrs >>
    /\ UNCHANGED << dcfq_gdf, zdqy_gdf, building_gdf, boring_gdf, avoid_algorithm, plan_params, pre_gdf, planned_gdf, gdf_bounds, central_meridian >>

\* MainWindow.plan_boring(params): the warning "generate the grid first" without a grid, else the
\* planner call inside try/except
MainPlanBoring(params) ==
    /\ last_op' = "plan_boring"
    /\ last_args' = << params >>
    /\ IF ~hasattr("grid_gdf")
       THEN /\ raised' = "warning"
            /\ UNCHANGED << boring_gdf, attrs, plan_params, planned_gdf >>
       ELSE /\ raised' = PlanRaises(grid_gdf)
            /\ IF raised' = "none"
               THEN /\ boring_gdf' = plan_boring(grid_gdf, dcfq_gdf, zdqy_gdf, hasattr("zdqy_gdf"), params)
                    /\ attrs' = attrs \cup {"boring_gdf"}
                    /\ plan_params' = params
                    /\ planned_gdf' = boring_gdf'
               ELSE UNCHANGED << boring_gdf, attrs, plan_params, planned_gdf >>
    /\ UNCHANGED << dcfq_gdf, zdqy_gdf, building_gdf, grid_gdf, avoid_algorithm, pre_gdf, ops, gdf_bounds, central_meridian >>

\* MainWindow.avoid_buildings(): a warning without buildings or without boring points, else the
\* planner call with the radius of the spin box
MainAvoidBuildings(search_radius, seed) ==
    /\ last_op' = "avoid_buildings"
    /\ last_args' = << search_radius, seed >>
    /\ IF ~hasattr("building_gdf") \/ ~hasattr("boring_gdf")
       THEN /\ raised' = "warning"
            /\ UNCHANGED << boring_gdf, pre_gdf >>
       ELSE /\ raised' = "none"
            /\ pre_gdf' = boring_gdf
            /\ boring_gdf' = avoid_buildings(boring_gdf, building_gdf, search_radius, avoid_algorithm, seed)
    /\ UNCHANGED << attrs, dcfq_gdf, zdqy_gdf, building_gdf, grid_gdf, avoid_algorithm, plan_params, ops, planned_gdf, gdf_bounds, central_meridian >>

\* MainWindow.reset_project(): every dataset attribute is deleted
ResetProject ==
    /\ attrs' = {}
    /\ dcfq_gdf' = << >>
    /\ zdqy_gdf' = << >>
    /\ building_gdf' = << >>
    /\ grid_gdf' = << >>
    /\ boring_gdf' = << >>
    /\ last_op' = "reset_project"
    /\ last_args' = << >>
    /\ raised' = "none"
    /\ ops' = 0
    /\ UNCHANGED << avoid_algorithm, plan_params, pre_gdf, planned_gdf, gdf_bounds, central_meridian >>

AppNext ==
    \/ \E zones \in ZoneSets : LoadDcfqFile(zones)
    \/ \E key_areas \in KeyAreaSets \ { << >> } : LoadZdqyFile(key_areas)
    \/ \E buildings \in BuildingSets : LoadBuildingFile(buildings)
    \/ \E params \in MenuGridParams \cup ToolPanelGridParams : GenerateGrid(params)
    \/ \E params \in ParamSets : MainPlanBoring(params)
    \/ \E search_radius \in AppRadii, seed \in Seeds : MainAvoidBuildings(search_radius, seed)
    \/ ResetProject

AppSpec == AppInit /\ [][AppNext]_vars

\* C28: once zones are loaded, a generate-grid request from the menu, the toolbar or the tool
\* panel stores a grid, and a plan-boring request made after it is not answered with the
\* "generate the grid first" warning
C28_GenerateGridStoresGrid ==
    /\ (last_op = "generate_grid" /\ hasattr("dcfq_gdf")) => (raised = "none" /\ hasattr("grid_gdf"))
    /\ (last_op = "plan_boring" /\ ops = 1) => raised # "warning"

(***************************************************************************)
(* avoid_buildings applied again and again to its own result, with the     *)
(* same buildings and search radius, in uncertainty mode                   *)
(***************************************************************************)
RepeatZoneSets == { << Zone("A", 0, 0, 100, 100) >>, << Zone("A", 0, 0, 50, 100) >> }

RepeatGridSizes == {20 * M, 40 * M}

RepeatParamSets == {Params(1, 1, 1, 1, 0, 0), Params(2, 1, 2, 1, 0, 0), Params(2, 1, 8, 4, 0, 0)}

\* the second dataset has a building on each side of the point (40, 80)
RepeatBuildingSets == BuildingSets \cup { << Rect(20, 30, 60, 70), Rect(20, 90, 60, 130) >> }

RepeatRadii == {50 * M, 60 * M}

\* a planned collection, a buildings layer and the radius of the calls to come
RepeatInit ==
    /\ dcfq_gdf \in RepeatZoneSets
    /\ zdqy_gdf = << >>
    /\ building_gdf \in RepeatBuildingSets
    /\ attrs = {"dcfq_gdf", "building_gdf", "grid_gdf", "boring_gdf"}
    /\ \E grid_size \in RepeatGridSizes : grid_gdf = create_grid(dcfq_gdf, grid_size)
    /\ grid_gdf # << >>
    /\ plan_params \in RepeatParamSets
    /\ boring_gdf = plan_boring(grid_gdf, dcfq_gdf, zdqy_gdf, FALSE, plan_params)
    /\ avoid_algorithm = "uncertainty"
    /\ last_op = "plan_boring"
    /\ \E search_radius \in RepeatRadii : last_args = << search_radius, 0 >>
    /\ pre_gdf = << >>
    /\ raised = "none"
    /\ ops = 0
    /\ planned_gdf = boring_gdf
    /\ gdf_bounds = << >>
    /\ central_meridian = 0

\* the caller makes one more call with the radius of the calls before it
RepeatCall(seed) ==
    /\ pre_gdf' = boring_gdf
    /\ last_op' = "avoid_buildings"
    /\ last_args' = << last_args[1], seed >>

\* boring_gdf = planner.avoid_buildings(boring_gdf, building_gdf, search_radius)
RepeatAvoidBuildings(seed) ==
    /\ RepeatCall(seed)
    /\ boring_gdf' = avoid_buildings(boring_gdf, building_gdf, last_args[1], avoid_algorithm, seed)
    /\ UNCHANGED << attrs, dcfq_gdf, zdqy_gdf, building_gdf, grid_gdf, avoid_algorithm, plan_params, raised, ops, planned_gdf, gdf_bounds, central_meridian >>

RepeatNext == \E seed \in Seeds : RepeatAvoidBuildings(seed)

\* what a call records of itself
call == << pre_gdf, last_op, last_args >>

\* the caller keeps calling: calls are made again and again, each a RepeatAvoidBuildings step
RepeatSpec == RepeatInit /\ [][RepeatNext]_vars /\ WF_call(\E seed \in Seeds : RepeatCall(seed))

\* no point of the collection lies strictly inside a building
Clear == \A i \in Rows : ~InSomeBuilding(boring_gdf[i].geometry)

\* C29: repeated calls eventually reach a collection with no point strictly inside a building
\* and stay there (a call on such a collection changes nothing, C9)
C29_RepeatedAvoidanceSettles == <>[]Clear

====
